---- MODULE Spec2Model ----
(***************************************************************************)
(* Writer side of the shared-memory byte stream, src/lib/utils/writer.js   *)
(* (the class exported at lines 169-361 and the functions Write and        *)
(* FakeWrite at lines 363-411).                                            *)
(*                                                                         *)
(* The Writer runs on one JavaScript thread: a handler runs to completion  *)
(* unless it blocks in Atomics.wait, and promise continuations run only    *)
(* when the stack is empty (pc = "idle").  The Reader is another thread    *)
(* that changes the READ_ words of the shared state between any two atomic *)
(* operations of the Writer, so a handler is cut exactly at its atomic     *)
(* loads and waits of READ_ words; pc records where the Writer stands.     *)
(*                                                                         *)
(* A payload is a JavaScript string: a sequence of characters, each        *)
(* <<id, k, w>> = character k of payload id, w bytes long in UTF-8.        *)
(* String.slice counts characters, Buffer.byteLength and Buffer.write      *)
(* count bytes.                                                            *)
(***************************************************************************)
EXTENDS Integers, Sequences, FiniteSets, TLC

VARIABLES
  _sharedBuffer,  \* B: offset -> cell
  _sharedState,   \* S: slot -> value
  _extraBuffer,   \* overflow queue
  _process, _cycle, _write,
  _ready, _ended, _closed, _ending, _errored, _destroyed,
  _finished, _needDrain, _watching,
  write,          \* what this.write is bound to: "Write" or "FakeWrite"
  drainOnce,      \* number of once('drain', () => end()) listeners armed by _watch
  pc,             \* position of the Writer's thread
  sync, toWrite, read, spins, ctx,   \* frame of the running Write call
  origin, status, \* frame of the running end or _watch call
  syncCalls,      \* history: number of calls of synchronize
  thrown,         \* the exception the last failing handler ended with, or "none"
  waiters,        \* waitAsync registrations on READ_INDEX not yet resolved
  procWaiters,    \* waitAsync registrations on READ_PROCESS not yet resolved
  jobs,           \* resolved continuations not yet run, in order
  frames,         \* history: every frame _store wrote (ok: and published)
  events,         \* history: every event emitted
  calls           \* history: the public write/writeSync calls and their results

vars == <<_sharedBuffer, _sharedState, _extraBuffer, _process, _cycle, _write,
          _ready, _ended, _closed, _ending, _errored, _destroyed,
          _finished, _needDrain, _watching, write, drainOnce, pc,
          sync, toWrite, read, spins, ctx, origin, status, syncCalls, thrown,
          waiters, procWaiters, jobs, frames, events, calls>>

(***************************************************************************)
(* Bounds of the model.                                                    *)
(***************************************************************************)
BufLen == 12
MaxWrites == 2
MaxLifeWrites == 2
MaxSyncs == 1
MaxLifeSyncs == 2

(***************************************************************************)
(* Program constants.                                                      *)
(***************************************************************************)
PREFIX_SIZE == 4
POSTFIX_SIZE == 0
EXTRA_SPACE == PREFIX_SIZE + POSTFIX_SIZE
READ_SPINS == 10
FINISH_SPINS == 10

READ_INDEX == "READ_INDEX"
READ_CYCLE == "READ_CYCLE"
READ_PROCESS == "READ_PROCESS"
WRITE_INDEX == "WRITE_INDEX"
WRITE_CYCLE == "WRITE_CYCLE"
WRITE_PROCESS == "WRITE_PROCESS"
Slots == {READ_INDEX, READ_CYCLE, READ_PROCESS, WRITE_INDEX, WRITE_CYCLE, WRITE_PROCESS}

EMPTY_SIGN == "EMPTY"
READY_SIGN == "READY"
FINISHING_SIGN == "FINISHING"
FINISHED_SIGN == "FINISHED"
FAILED_SIGN == "FAILED"

TOO_LONG_READING == "Reading process took too long"
READER_EXIT_BEFORE_SYNC == "Failed to start - reader failed before synchronization"
READER_FAILED_TIMEOUT == "Failed to start - reader timed out"
READER_EXIT_AT_SYNC == "Failed to start - reader exited while synchronization"
FAILED_TO_FINISH_TIMEOUT == "Failed to finish - timed out"
FAILED_TO_FINISH_READER == "Failed to finish - reader exited with error"
READER_EXIT_WHILE_WATCH == "Reader failed while watching"

(***************************************************************************)
(* Strings and bytes.                                                      *)
(***************************************************************************)
Ones(n) == [i \in 1..n |-> 1]
Wide(n) == [i \in 1..n |-> 2]

\* The character widths of the payloads the callers hand in: a short one, one
\* that fills B as a single frame, one that needs more than two frames of the
\* size of B, one of two-byte characters, and one that starts with a one-byte
\* character and goes on with two-byte characters.
Short == Ones(1)
Full == Ones(BufLen - EXTRA_SPACE - 1)
Long == Ones(2 * (BufLen - EXTRA_SPACE - 1) + 1)
Mixed == Ones(1) \o Wide(2)
Shapes == { Short, Full, Long, Wide(4), Mixed }

Over == Ones(BufLen - EXTRA_SPACE + 1)
LifeShapes == { Over }

MkPayload(id, shape) == [k \in 1..Len(shape) |-> <<id, k, shape[k]>>]

\* What Array.prototype.shift returns on an empty array.
UNDEF == << <<0, 0, 0>> >>

RECURSIVE BytesOfFirst(_, _)
BytesOfFirst(s, n) == IF n = 0 THEN 0 ELSE BytesOfFirst(s, n - 1) + s[n][3]

\* (v is bound to the value of s, which is then computed once)
byteLength(s) == CHOOSE n \in {BytesOfFirst(v, Len(v)) : v \in {s}} : TRUE

slice(s, from, to) == SubSeq(s, from + 1, IF to < Len(s) THEN to ELSE Len(s))

\* Buffer.write(string, offset): the longest prefix of whole characters that
\* fits in the cap bytes left after offset.
Fitting(s, cap) ==
  CHOOSE w \in
    {SubSeq(v, 1, Cardinality({n \in 1..Len(v) : byteLength(SubSeq(v, 1, n)) <= cap})) :
       v \in {s}} : TRUE

RECURSIVE Utf8OfFirst(_, _)
Utf8OfFirst(s, n) ==
  IF n = 0 THEN <<>>
  ELSE Utf8OfFirst(s, n - 1) \o [b \in 1..s[n][3] |-> <<"pay", s[n][1], s[n][2], b>>]

Utf8(s) == CHOOSE bytes \in {Utf8OfFirst(v, Len(v)) : v \in {s}} : TRUE

ZeroCell == <<"zero", 0, 0, 0>>

(***************************************************************************)
(* Construction (lines 170-198).                                           *)
(***************************************************************************)
\* The shared words are zero and the signs EMPTY when the regions are
\* allocated; the Reader may have attached (readSign) before the Writer is built.
Constructed(readSign) ==
  /\ _sharedBuffer = [i \in 0..(BufLen - 1) |-> ZeroCell]
  /\ _sharedState = [s \in Slots |->
                       IF s = READ_PROCESS THEN readSign
                       ELSE IF s = WRITE_PROCESS THEN EMPTY_SIGN ELSE 0]
  /\ _extraBuffer = <<>>
  /\ _process = EMPTY_SIGN
  /\ _cycle = 0
  /\ _write = 0
  /\ _ready = FALSE
  /\ _ended = FALSE
  /\ _closed = FALSE
  /\ _ending = FALSE
  /\ _errored = "null"
  /\ _destroyed = FALSE
  /\ _finished = FALSE
  /\ _needDrain = FALSE
  /\ _watching = FALSE
  /\ write = "Write"
  /\ drainOnce = 0
  /\ pc = "idle"
  /\ sync = FALSE
  /\ toWrite = <<>>
  /\ read = 0
  /\ spins = 0
  /\ ctx = "user"
  /\ origin = EMPTY_SIGN
  /\ status = EMPTY_SIGN
  /\ syncCalls = 0
  /\ thrown = "none"
  /\ waiters = 0
  /\ procWaiters = <<>>
  /\ jobs = <<>>
  /\ frames = <<>>
  /\ events = <<>>
  /\ calls = <<>>

ringVars == <<_sharedBuffer, _cycle, _write, frames>>
flagVars == <<_process, _ready, _ended, _closed, _ending, _errored, _destroyed,
              _finished, _watching, drainOnce, origin, status, syncCalls>>
frameVars == <<sync, toWrite, read, ctx>>

\* get writable (lines 329-331)
writable == ~_destroyed /\ ~_ending

(***************************************************************************)
(* Calls, returns and exceptions.                                          *)
(***************************************************************************)
SetResult(cl, r) == [cl EXCEPT ![Len(cl)].result = r]

\* The running handler has ended and its frame is gone.
Idle == pc' = "idle" /\ sync' = FALSE /\ toWrite' = <<>> /\ read' = 0 /\ ctx' = "user"

\* Write returns val to its caller c: a public call, or the loop of _drain
\* (lines 259-262), which returns when the status is true and goes on otherwise.
Finish(c, cl, val) ==
  IF c = "user" THEN Idle /\ calls' = SetResult(cl, val)
  ELSE IF val = "true" THEN Idle /\ calls' = cl
  ELSE /\ pc' = "drainLoop" /\ ctx' = c /\ calls' = cl
       /\ sync' = FALSE /\ toWrite' = <<>> /\ read' = 0

\* An exception leaves Write and its caller; nothing catches it.
Raise(c, cl, msg) ==
  /\ Idle
  /\ thrown' = msg
  /\ calls' = IF c = "user" THEN SetResult(cl, "threw") ELSE cl

\* Write without the test of line 364.
EnterWriteUnguarded(s, p, c, cl) ==
  /\ pc' = "cycle" /\ sync' = s /\ toWrite' = p /\ ctx' = c
  /\ read' = _sharedState[READ_INDEX]
  /\ calls' = cl

\* Entry of Write(sync, toWrite) up to the load of READ_INDEX (lines 364-365).
EnterWrite(s, p, c, cl) ==
  IF ~writable THEN Finish(c, cl, "false")
  ELSE /\ pc' = "cycle" /\ sync' = s /\ toWrite' = p /\ ctx' = c
       /\ read' = _sharedState[READ_INDEX]
       /\ calls' = cl

\* FakeWrite (lines 408-411)
FakeWrite(q, data) == Append(q, data)

(***************************************************************************)
(* _store (lines 246-255).  Buffer.write puts the whole characters that    *)
(* fit before the end of B; writeUInt8 throws a RangeError when its offset *)
(* is not inside B, after the payload and the length have been written.    *)
(***************************************************************************)
StoreWritten(data) == Fitting(data, BufLen - (_write + PREFIX_SIZE))

StoreFlagAt(data) == _write + byteLength(StoreWritten(data)) + EXTRA_SPACE

StoreThrows(data) == StoreFlagAt(data) > BufLen - 1

StoreBytes(data) ==
  LET w == StoreWritten(data)
      n == byteLength(w)
      bytes == Utf8(w)
  IN  [i \in 0..(BufLen - 1) |->
         IF i >= _write /\ i < _write + PREFIX_SIZE
           THEN <<"len", n, i - _write, 0>>
         ELSE IF i >= _write + PREFIX_SIZE /\ i < _write + PREFIX_SIZE + n
           THEN bytes[i - (_write + PREFIX_SIZE) + 1]
         ELSE _sharedBuffer[i]]

StoreNext(data) == _write + PREFIX_SIZE + byteLength(StoreWritten(data)) + POSTFIX_SIZE + 1

_store(data, isNotFin) ==
  /\ _sharedBuffer' = [StoreBytes(data) EXCEPT ![StoreFlagAt(data)] = <<"nf", isNotFin, 0, 0>>]
  /\ _write' = StoreNext(data)
  /\ _sharedState' = [_sharedState EXCEPT ![WRITE_INDEX] = StoreNext(data)]
  /\ frames' = Append(frames, [at |-> _write, data |-> StoreWritten(data),
                               nf |-> isNotFin, lap |-> _cycle,
                               end |-> StoreNext(data), ok |-> TRUE])

\* _store when writeUInt8 throws: lines 248 and 250 have run, 252-254 have not.
StoreFailed(data, isNotFin) ==
  /\ _sharedBuffer' = StoreBytes(data)
  /\ frames' = Append(frames, [at |-> _write, data |-> StoreWritten(data),
                               nf |-> isNotFin, lap |-> _cycle,
                               end |-> StoreNext(data), ok |-> FALSE])
  /\ UNCHANGED <<_write, _sharedState>>

(***************************************************************************)
(* Notifications of the Reader (Atomics.notify wakes every waiter of the   *)
(* slot): the thread parked in Atomics.wait wakes with "ok", every         *)
(* waitAsync promise resolves with "ok" and its continuation is queued.    *)
(***************************************************************************)
Repeat(x, n) == [i \in 1..n |-> x]

NotifyReadIndex ==
  /\ pc' = IF pc = "parked" THEN "woken" ELSE pc
  /\ jobs' = jobs \o Repeat(<<"drain", "ok">>, waiters)
  /\ waiters' = 0

(***************************************************************************)
(* Write (lines 363-406), after READ_INDEX has been loaded.                *)
(***************************************************************************)
cycle == _sharedState[READ_CYCLE]
isBehind == read > _write \/ cycle < _cycle
span == (IF isBehind THEN read ELSE BufLen) - _write
leftover == span - (EXTRA_SPACE + 1)
Faulty == span < 0 \/ cycle > _cycle
NoSpace == leftover <= 0

\* lines 369-370, and Buffer.byteLength(undefined) at line 399
WriteThrows ==
  /\ pc = "cycle"
  /\ Faulty \/ (~NoSpace /\ toWrite = UNDEF)
  /\ Raise(ctx, calls,
           IF span < 0 THEN "overwritten"
           ELSE IF cycle > _cycle THEN "Read further than expected"
           ELSE "TypeError")
  /\ UNCHANGED <<ringVars, flagVars, _sharedState, _extraBuffer, _needDrain, write,
                 spins, waiters, procWaiters, jobs, events>>

\* lines 373-374: the synchronous call is about to wait
WriteWaitSync ==
  /\ pc = "cycle" /\ ~Faulty /\ NoSpace /\ isBehind /\ sync
  /\ pc' = "wait"
  /\ spins' = 0
  /\ UNCHANGED <<ringVars, flagVars, frameVars, _sharedState, _extraBuffer, _needDrain,
                 write, thrown, waiters, procWaiters, jobs, events, calls>>

\* lines 383-388
WriteWaitAsync ==
  /\ pc = "cycle" /\ ~Faulty /\ NoSpace /\ isBehind /\ ~sync
  /\ IF _sharedState[READ_INDEX] # read
       THEN /\ pc' = "enter"
            /\ UNCHANGED <<frameVars, _extraBuffer, _needDrain, write, waiters, calls>>
       ELSE /\ waiters' = waiters + 1
            /\ write' = "FakeWrite"
            /\ _needDrain' = TRUE
            /\ _extraBuffer' = FakeWrite(_extraBuffer, toWrite)
            /\ Finish(ctx, calls, "true")
  /\ UNCHANGED <<ringVars, flagVars, _sharedState, spins, thrown, procWaiters, jobs, events>>

\* lines 391-397
WriteWrap ==
  /\ pc = "cycle" /\ ~Faulty /\ NoSpace /\ ~isBehind
  /\ _write' = 0
  /\ _sharedState' = [_sharedState EXCEPT ![WRITE_INDEX] = 0, ![WRITE_CYCLE] = _cycle]
  /\ _cycle' = _cycle + 1
  /\ pc' = "enter"
  /\ UNCHANGED <<_sharedBuffer, frames, flagVars, frameVars, _extraBuffer, _needDrain,
                 write, spins, thrown, waiters, procWaiters, jobs, events, calls>>

\* lines 399-402
WriteSplit ==
  /\ pc = "cycle" /\ ~Faulty /\ ~NoSpace /\ toWrite # UNDEF
  /\ leftover < byteLength(toWrite) + EXTRA_SPACE
  /\ \E head \in {slice(toWrite, 0, leftover)},
        rest \in {slice(toWrite, leftover, Len(toWrite))} :
         IF StoreThrows(head)
           THEN /\ StoreFailed(head, 1)
                /\ Raise(ctx, calls, "RangeError")
                /\ UNCHANGED _cycle
           ELSE /\ _store(head, 1)
                /\ pc' = "enter"
                /\ toWrite' = rest
                /\ UNCHANGED <<_cycle, sync, read, ctx, thrown, calls>>
  /\ UNCHANGED <<flagVars, _extraBuffer, _needDrain, write, spins, waiters, procWaiters,
                 jobs, events>>

\* lines 404-405
WriteStore ==
  /\ pc = "cycle" /\ ~Faulty /\ ~NoSpace /\ toWrite # UNDEF
  /\ ~(leftover < byteLength(toWrite) + EXTRA_SPACE)
  /\ _store(toWrite, 0)
  /\ Finish(ctx, calls, "false")
  /\ UNCHANGED <<_cycle, flagVars, _extraBuffer, _needDrain, write, spins, thrown,
                 waiters, procWaiters, jobs, events>>

\* a recursive call of Write: lines 380, 384, 396, 401
WriteAgain ==
  /\ pc = "enter"
  /\ EnterWrite(sync, toWrite, ctx, calls)
  /\ UNCHANGED <<ringVars, flagVars, _sharedState, _extraBuffer, _needDrain, write,
                 spins, thrown, waiters, procWaiters, jobs, events>>

(***************************************************************************)
(* The spin of the synchronous call (lines 375-380).  Atomics.wait returns *)
(* "not-equal" at once when READ_INDEX differs from read; otherwise the    *)
(* thread parks until a notify ("ok") or SPIN_TIMEOUT ("timed-out").       *)
(***************************************************************************)
AfterWait(how) ==
  /\ spins' = IF how = "timed-out" /\ spins + 1 < READ_SPINS THEN spins + 1 ELSE 0
  /\ IF spins + 1 = READ_SPINS
       THEN Raise(ctx, calls, TOO_LONG_READING)
       ELSE /\ UNCHANGED thrown
            /\ IF how = "timed-out"
                 THEN pc' = "wait" /\ UNCHANGED <<frameVars, calls>>
                 ELSE EnterWrite(FALSE, toWrite, ctx, calls)
  /\ UNCHANGED <<ringVars, flagVars, _sharedState, _extraBuffer, _needDrain, write,
                 waiters, procWaiters, jobs, events>>

WaitNotEqual ==
  /\ pc = "wait" /\ _sharedState[READ_INDEX] # read
  /\ AfterWait("not-equal")

WaitPark ==
  /\ pc = "wait" /\ _sharedState[READ_INDEX] = read
  /\ pc' = "parked"
  /\ UNCHANGED <<ringVars, flagVars, frameVars, _sharedState, _extraBuffer, _needDrain,
                 write, spins, thrown, waiters, procWaiters, jobs, events, calls>>

WaitTimedOut ==
  /\ pc = "parked"
  /\ AfterWait("timed-out")

WaitOk ==
  /\ pc = "woken"
  /\ AfterWait("ok")

(***************************************************************************)
(* _drain (lines 257-268), the continuation line 385 registers.            *)
(***************************************************************************)
\* lines 259-260: Array.shift gives undefined on an empty queue
DrainShift ==
  /\ _extraBuffer' = IF _extraBuffer = <<>> THEN <<>> ELSE Tail(_extraBuffer)
  /\ EnterWrite(FALSE, IF _extraBuffer = <<>> THEN UNDEF ELSE Head(_extraBuffer),
                "drain", calls)

RunDrain ==
  /\ pc = "idle" /\ jobs # <<>> /\ Head(jobs)[1] = "drain"
  /\ jobs' = Tail(jobs)
  /\ DrainShift
  /\ UNCHANGED <<ringVars, flagVars, _sharedState, _needDrain, write, spins, thrown,
                 waiters, procWaiters, events>>

\* line 262: the loop goes on while the queue holds something
DrainNext ==
  /\ pc = "drainLoop" /\ _extraBuffer # <<>>
  /\ DrainShift
  /\ UNCHANGED <<ringVars, flagVars, _sharedState, _needDrain, write, spins, thrown,
                 waiters, procWaiters, jobs, events>>

(***************************************************************************)
(* The public entry points (lines 195-196): writeSync is bound to          *)
(* Write(true) for good, write is rebound at lines 264 and 386.            *)
(***************************************************************************)
NewCall(s, p) == Append(calls, [sync |-> s, data |-> p, result |-> "pending"])

CallWrite(shape, max) ==
  /\ pc = "idle" /\ Len(calls) < max
  /\ LET p == MkPayload(Len(calls) + 1, shape)
     IN  IF write = "FakeWrite"
           THEN /\ _extraBuffer' = FakeWrite(_extraBuffer, p)
                /\ calls' = SetResult(NewCall(FALSE, p), "true")
                /\ UNCHANGED <<pc, frameVars>>
           ELSE /\ EnterWrite(FALSE, p, "user", NewCall(FALSE, p))
                /\ UNCHANGED _extraBuffer
  /\ UNCHANGED <<ringVars, flagVars, _sharedState, _needDrain, write, spins, thrown,
                 waiters, procWaiters, jobs, events>>

CallWriteSync(shape, max) ==
  /\ pc = "idle" /\ Len(calls) < max
  /\ LET p == MkPayload(Len(calls) + 1, shape)
     IN  EnterWrite(TRUE, p, "user", NewCall(TRUE, p))
  /\ UNCHANGED <<ringVars, flagVars, _sharedState, _extraBuffer, _needDrain, write,
                 spins, thrown, waiters, procWaiters, jobs, events>>

(***************************************************************************)
(* The Reader's side of the ring, from its contract: it consumes the frame *)
(* at READ_INDEX of its lap, and at the end of the written region of a lap *)
(* the Writer has left it wraps to 0 and bumps READ_CYCLE; it notifies     *)
(* READ_INDEX on every change.  It runs only while attached.               *)
(***************************************************************************)
ReaderRuns == _sharedState[READ_PROCESS] \in {READY_SIGN, FINISHING_SIGN}

FrameAtReader(f) ==
  /\ f.ok
  /\ f.lap = _sharedState[READ_CYCLE]
  /\ f.at = _sharedState[READ_INDEX]

ReaderConsume ==
  /\ ReaderRuns
  /\ \E i \in 1..Len(frames) :
       /\ FrameAtReader(frames[i])
       /\ _sharedState' = [_sharedState EXCEPT ![READ_INDEX] = frames[i].end]
  /\ NotifyReadIndex
  /\ UNCHANGED <<ringVars, flagVars, frameVars, _extraBuffer, _needDrain, write, spins,
                 thrown, procWaiters, events, calls>>

ReaderWrap ==
  /\ ReaderRuns
  /\ _cycle > _sharedState[READ_CYCLE]
  /\ \A i \in 1..Len(frames) : ~FrameAtReader(frames[i])
  /\ _sharedState' = [_sharedState EXCEPT ![READ_INDEX] = 0,
                                          ![READ_CYCLE] = _sharedState[READ_CYCLE] + 1]
  /\ NotifyReadIndex
  /\ UNCHANGED <<ringVars, flagVars, frameVars, _extraBuffer, _needDrain, write, spins,
                 thrown, procWaiters, events, calls>>

(***************************************************************************)
(* The lifecycle controller.  Its methods call one another (end and _watch *)
(* call destroy, _watch calls end), so each is a function from the state   *)
(* of the Writer, as a record, to the state it leaves.                     *)
(***************************************************************************)
Me == [process |-> _process, ready |-> _ready, ended |-> _ended, closed |-> _closed,
       ending |-> _ending, errored |-> _errored, destroyed |-> _destroyed,
       finished |-> _finished, watching |-> _watching, drainOnce |-> drainOnce,
       S |-> _sharedState, events |-> events, pc |-> pc, origin |-> origin,
       status |-> status, spins |-> spins, thrown |-> thrown, syncCalls |-> syncCalls]

Become(r) ==
  /\ _process' = r.process /\ _ready' = r.ready /\ _ended' = r.ended
  /\ _closed' = r.closed /\ _ending' = r.ending /\ _errored' = r.errored
  /\ _destroyed' = r.destroyed /\ _finished' = r.finished /\ _watching' = r.watching
  /\ drainOnce' = r.drainOnce /\ _sharedState' = r.S /\ events' = r.events
  /\ pc' = r.pc /\ origin' = r.origin /\ status' = r.status /\ spins' = r.spins
  /\ thrown' = r.thrown /\ syncCalls' = r.syncCalls
  /\ sync' = FALSE /\ toWrite' = <<>> /\ read' = 0 /\ ctx' = "user"

\* The handler returns to the event loop.
Return(r) == [r EXCEPT !.pc = "idle", !.origin = EMPTY_SIGN, !.status = EMPTY_SIGN,
                       !.spins = 0]

emit(r, e) == [r EXCEPT !.events = Append(r.events, e)]

\* destroy (lines 305-327); err is "null" for a call without an error
destroy(r, err) ==
  IF r.destroyed \/ r.ending THEN r
  ELSE LET readStatus == r.S[READ_PROCESS]
           writeStatus == r.S[WRITE_PROCESS]
           writeActive == writeStatus = READY_SIGN \/ writeStatus = EMPTY_SIGN
           readActive == readStatus = READY_SIGN \/ readStatus = EMPTY_SIGN
           sign == IF err # "null" THEN FAILED_SIGN ELSE FINISHED_SIGN
           r1 == [r EXCEPT !.watching = FALSE,
                           !.S = IF writeActive /\ readActive
                                   THEN [r.S EXCEPT ![WRITE_PROCESS] = sign]
                                   ELSE r.S]
           r2 == IF err # "null" THEN emit([r1 EXCEPT !.errored = err], "error") ELSE r1
       IN  emit([r2 EXCEPT !.destroyed = TRUE, !.closed = TRUE], "close")

\* end up to its loop (lines 270-283)
end(r) ==
  IF r.destroyed \/ r.ending THEN Return(r)
  ELSE LET st == r.S[READ_PROCESS]
       IN  [r EXCEPT !.process = FINISHING_SIGN,
                     !.watching = FALSE,
                     !.ending = TRUE,
                     !.S = IF st = READY_SIGN \/ st = EMPTY_SIGN \/ st = FINISHING_SIGN
                             THEN [r.S EXCEPT ![WRITE_PROCESS] = FINISHING_SIGN]
                             ELSE r.S,
                     !.spins = 0, !.origin = st, !.status = st, !.pc = "endSpin"]

\* end after its loop (lines 290-302), st the status the last iteration loaded
endOutcome(r, st) ==
  IF st = FAILED_SIGN \/ st = r.origin
    THEN destroy([r EXCEPT !.ending = FALSE],
                 IF st = r.origin THEN FAILED_TO_FINISH_TIMEOUT
                 ELSE FAILED_TO_FINISH_READER)
    ELSE emit([r EXCEPT !.S = [r.S EXCEPT ![WRITE_PROCESS] = FINISHED_SIGN],
                        !.process = FINISHED_SIGN,
                        !.finished = TRUE,
                        !.ended = TRUE], "finish")

\* one iteration of the loop of end (lines 284-288): the condition of the
\* while is true for every status, so only the count of spins ends the loop.
\* The status an earlier iteration loads is only what the next Atomics.wait
\* expects, and the wait ends in any case: the iterations before the last one
\* change nothing but spins and are one step, the last one is another, and
\* the Reader acts before either.
endSpin(r) ==
  LET st == r.S[READ_PROCESS]
  IN  IF r.spins + 1 = FINISH_SPINS
        THEN Return(endOutcome(r, st))
        ELSE [r EXCEPT !.spins = FINISH_SPINS - 1]

\* synchronize up to its waitAsync (lines 200-210)
synchronize(r) ==
  LET r1 == [r EXCEPT !.process = READY_SIGN,
                      !.S = [r.S EXCEPT ![WRITE_PROCESS] = READY_SIGN]]
      st == r.S[READ_PROCESS]
  IN  IF st = READY_SIGN THEN Return(emit([r1 EXCEPT !.ready = TRUE], "ready"))
      ELSE IF st # EMPTY_SIGN THEN Return(destroy(r1, READER_EXIT_BEFORE_SYNC))
      ELSE [r1 EXCEPT !.pc = "syncWait"]

\* the continuation of synchronize (lines 217-225); _watch follows
synchronized(r, v) ==
  IF v # "ok" THEN Return(destroy(r, READER_FAILED_TIMEOUT))
  ELSE IF r.S[READ_PROCESS] # READY_SIGN THEN Return(destroy(r, READER_EXIT_AT_SYNC))
  ELSE [emit([r EXCEPT !.watching = TRUE, !.ready = TRUE], "ready") EXCEPT !.pc = "watch"]

\* _watch up to its waitAsync (lines 228-239); queued: _extraBuffer.length
_watch(r, queued) ==
  IF ~r.watching THEN Return(r)
  ELSE LET st == r.S[READ_PROCESS]
           r1 == IF st = FINISHING_SIGN
                   THEN [r EXCEPT !.drainOnce = r.drainOnce + 1]
                   ELSE r
       IN  IF st = FINISHING_SIGN /\ queued = 0 THEN end(r)
           ELSE IF st = FAILED_SIGN \/ st = FINISHED_SIGN
             THEN Return(destroy(r1, READER_EXIT_WHILE_WATCH))
           ELSE [r1 EXCEPT !.status = st, !.pc = "watchWait"]

(***************************************************************************)
(* The handlers of the lifecycle as steps of the Writer's thread.          *)
(***************************************************************************)
engineVars == <<ringVars, _extraBuffer, _needDrain, write, waiters, calls>>

\* lines 264-267; emit runs the listener _watch armed at line 234, if any
DrainDone ==
  /\ pc = "drainLoop" /\ _extraBuffer = <<>>
  /\ write' = "Write"
  /\ _needDrain' = FALSE
  /\ Become(IF drainOnce > 0
              THEN end([emit(Me, "drain") EXCEPT !.drainOnce = 0])
              ELSE Return(emit(Me, "drain")))
  /\ UNCHANGED <<ringVars, _extraBuffer, waiters, procWaiters, jobs, calls>>

CallDestroy(err) ==
  /\ pc = "idle"
  /\ Become(Return(destroy(Me, err)))
  /\ UNCHANGED <<engineVars, procWaiters, jobs>>

CallEnd ==
  /\ pc = "idle"
  /\ Become(end(Me))
  /\ UNCHANGED <<engineVars, procWaiters, jobs>>

EndSpin ==
  /\ pc = "endSpin"
  /\ Become(endSpin(Me))
  /\ UNCHANGED <<engineVars, procWaiters, jobs>>

\* synchronize is a public method that nothing guards: it is called at most
\* max times, at any time the Writer's thread is free
CallSynchronize(max) ==
  /\ pc = "idle" /\ syncCalls < max
  /\ Become(synchronize([Me EXCEPT !.syncCalls = syncCalls + 1]))
  /\ UNCHANGED <<engineVars, procWaiters, jobs>>

\* lines 211-216: waitAsync settles at once when READ_PROCESS is no longer
\* EMPTY, and line 213 then calls this._synchronize, which no line defines
SyncWait ==
  /\ pc = "syncWait"
  /\ IF _sharedState[READ_PROCESS] # EMPTY_SIGN
       THEN /\ Become(Return([Me EXCEPT !.thrown = "TypeError"]))
            /\ UNCHANGED procWaiters
       ELSE /\ Become(Return(Me))
            /\ procWaiters' = Append(procWaiters, "sync")
  /\ UNCHANGED <<engineVars, jobs>>

\* START_TIMEOUT passes before any notify of READ_PROCESS
SyncTimesOut ==
  /\ \E i \in 1..Len(procWaiters) :
       /\ procWaiters[i] = "sync"
       /\ procWaiters' = SubSeq(procWaiters, 1, i - 1)
                           \o SubSeq(procWaiters, i + 1, Len(procWaiters))
  /\ jobs' = Append(jobs, <<"sync", "timed-out">>)
  /\ UNCHANGED <<engineVars, flagVars, frameVars, _sharedState, pc, spins, thrown, events>>

RunSynchronized ==
  /\ pc = "idle" /\ jobs # <<>> /\ Head(jobs)[1] = "sync"
  /\ jobs' = Tail(jobs)
  /\ Become(synchronized(Me, Head(jobs)[2]))
  /\ UNCHANGED <<engineVars, procWaiters>>

RunWatch ==
  /\ pc = "idle" /\ jobs # <<>> /\ Head(jobs)[1] = "watch"
  /\ jobs' = Tail(jobs)
  /\ Become(_watch(Me, Len(_extraBuffer)))
  /\ UNCHANGED <<engineVars, procWaiters>>

\* _watch called at line 224 or 242
Watch ==
  /\ pc = "watch"
  /\ Become(_watch(Me, Len(_extraBuffer)))
  /\ UNCHANGED <<engineVars, procWaiters, jobs>>

\* lines 241-243
WatchWait ==
  /\ pc = "watchWait"
  /\ IF _sharedState[READ_PROCESS] # status
       THEN /\ Become([Me EXCEPT !.pc = "watch"])
            /\ UNCHANGED procWaiters
       ELSE /\ Become(Return(Me))
            /\ procWaiters' = Append(procWaiters, "watch")
  /\ UNCHANGED <<engineVars, jobs>>

(***************************************************************************)
(* The Reader's process sign, from its contract: READY once attached, then *)
(* FINISHING, FINISHED or FAILED, each change notified.                    *)
(***************************************************************************)
ReaderMoves == { <<EMPTY_SIGN, READY_SIGN>>, <<EMPTY_SIGN, FAILED_SIGN>>,
                 <<READY_SIGN, FINISHING_SIGN>>, <<READY_SIGN, FINISHED_SIGN>>,
                 <<READY_SIGN, FAILED_SIGN>>, <<FINISHING_SIGN, FINISHED_SIGN>>,
                 <<FINISHING_SIGN, FAILED_SIGN>> }

ReaderSign ==
  /\ \E m \in ReaderMoves :
       /\ m[1] = _sharedState[READ_PROCESS]
       /\ _sharedState' = [_sharedState EXCEPT ![READ_PROCESS] = m[2]]
  /\ jobs' = jobs \o [i \in 1..Len(procWaiters) |-> <<procWaiters[i], "ok">>]
  /\ procWaiters' = <<>>
  /\ UNCHANGED <<engineVars, flagVars, frameVars, pc, spins, thrown, events>>

(***************************************************************************)
(* The system.  Callers hand in payloads of the given shapes, at most max  *)
(* of them.                                                                *)
(***************************************************************************)
Engine(shapes, max) ==
  \/ \E shape \in shapes : CallWrite(shape, max)
  \/ \E shape \in shapes : CallWriteSync(shape, max)
  \/ WriteThrows
  \/ WriteWaitSync
  \/ WriteWaitAsync
  \/ WriteWrap
  \/ WriteSplit
  \/ WriteStore
  \/ WriteAgain
  \/ WaitNotEqual
  \/ WaitPark
  \/ WaitTimedOut
  \/ WaitOk
  \/ RunDrain
  \/ DrainNext
  \/ DrainDone
  \/ ReaderConsume
  \/ ReaderWrap

Lifecycle(syncs) ==
  \/ \E err \in {"null", "Error"} : CallDestroy(err)
  \/ CallEnd
  \/ EndSpin
  \/ CallSynchronize(syncs)
  \/ SyncWait
  \/ SyncTimesOut
  \/ RunSynchronized
  \/ RunWatch
  \/ Watch
  \/ WatchWait
  \/ ReaderSign

\* The whole Writer, from construction, with a Reader that attaches later.
Init == Constructed(EMPTY_SIGN)

Next == Engine(LifeShapes, MaxLifeWrites) \/ Lifecycle(MaxSyncs)

Spec == Init /\ [][Next]_vars

\* The lifecycle controller alone: the callers never write, and may call
\* synchronize more than once.
NextLife == Lifecycle(MaxLifeSyncs)

SpecLife == Init /\ [][NextLife]_vars

\* The write engine against a Reader that is attached and stays so: the
\* callers only write.
InitRing == Constructed(READY_SIGN)

NextRing == Engine(Shapes, MaxWrites)

SpecRing == InitRing /\ [][NextRing]_vars

\* The steps of the Writer's thread that no caller decides: the body of
\* write, and the continuations of waitAsync once they are resolved.
WriterRuns ==
  \/ WriteThrows
  \/ WriteWaitAsync
  \/ WriteWrap
  \/ WriteSplit
  \/ WriteStore
  \/ WriteAgain
  \/ RunDrain
  \/ DrainNext
  \/ DrainDone

\* The asynchronous write alone, neither end nor destroy, against a Reader
\* that is attached and keeps consuming: the thread of the Writer runs on, a
\* resolved continuation is delivered, the Reader takes every step it can.
NextAsync ==
  \/ \E shape \in Shapes : CallWrite(shape, MaxWrites)
  \/ WriterRuns
  \/ ReaderConsume
  \/ ReaderWrap

SpecAsync ==
  /\ InitRing /\ [][NextAsync]_vars
  /\ WF_vars(WriterRuns) /\ WF_vars(ReaderConsume) /\ WF_vars(ReaderWrap)

(***************************************************************************)
(* What an observer of B and of the calls sees.                            *)
(***************************************************************************)
\* frame f holds bytes of the payload of call a
Carries(f, a) == \E k \in 1..Len(f.data) : f.data[k][1] = a

\* the frames published so far, in the order _store wrote them
Published == SelectSeq(frames, LAMBDA f : f.ok)

\* no published frame of the earlier call a comes after one of the later call b
InOrder(a, b) ==
  \A i, j \in 1..Len(Published) :
    (Carries(Published[i], b) /\ Carries(Published[j], a)) => j < i

AllAsync == \A c \in 1..Len(calls) : ~calls[c].sync

\* C1: for two calls writeSync(p) then writeSync(q), under every interleaving
\* of the Reader's progress, every frame with bytes of p is stored in B before
\* any frame with bytes of q.
C1_SyncOrder ==
  \A a, b \in 1..Len(calls) :
    (a < b /\ calls[a].sync /\ calls[b].sync) => InOrder(a, b)

\* C2: when every call is an asynchronous write, the payloads reach B in the
\* order of the calls, and a frame stored with NOT_FINAL = 1 is followed by a
\* frame of the same payload, never by one of another payload.
C2_AsyncOrder ==
  AllAsync =>
    /\ \A a, b \in 1..Len(calls) : a < b => InOrder(a, b)
    /\ \A i \in 1..(Len(Published) - 1) : \A b \in 1..Len(calls) :
         (Published[i].nf = 1 /\ Published[i].data # <<>> /\ Carries(Published[i + 1], b))
           => Carries(Published[i], b)

\* this step, a call of write returns v
WriteReturns(v) ==
  \E c \in 1..Len(calls') :
    /\ ~calls'[c].sync /\ calls'[c].result = v
    /\ c > Len(calls) \/ calls[c].result = "pending"

Count(log, e) == Len(SelectSeq(log, LAMBDA x : x = e))

\* this step, the event e is emitted
Emits(e) == Count(events', e) > Count(events, e)

\* write is bound to FakeWrite from the call that returns true to the drain
\* event: the backpressure episode
Buffering == write = "FakeWrite"

EpisodeOpens == WriteReturns("true") => Buffering'
EpisodeHolds == Buffering => ~WriteReturns("false") /\ ~WriteReturns("threw")
EpisodeCloses ==
  (Buffering /\ ~Buffering') => (Emits("drain") /\ _extraBuffer' = <<>> /\ ~_needDrain')
DrainClosesEpisode == Emits("drain") => Buffering

\* C3: once write has returned true every later write returns true until a
\* drain event; the episode ends with exactly one drain event, at which the
\* overflow queue is empty and need_drain is false, and only then can write
\* return false again.
C3_BackpressureLaw ==
  [][EpisodeOpens /\ EpisodeHolds /\ EpisodeCloses /\ DrainClosesEpisode]_vars

\* C4: with a Reader that keeps its contract, READ_CYCLE = WRITE_CYCLE and
\* READ_INDEX <= WRITE_INDEX, or READ_CYCLE + 1 = WRITE_CYCLE and
\* WRITE_INDEX <= READ_INDEX; no other relation of the two cycles occurs.
C4_CursorInvariant ==
  LET rc == _sharedState[READ_CYCLE]
      wc == _sharedState[WRITE_CYCLE]
      ri == _sharedState[READ_INDEX]
      wi == _sharedState[WRITE_INDEX]
  IN  \/ rc = wc /\ ri <= wi
      \/ rc + 1 = wc /\ wi <= ri

\* this step, the write engine wraps
Wraps == _cycle' = _cycle + 1

\* C5: every wrap raises WRITE_CYCLE by exactly 1 and leaves it equal to the
\* Writer's own cycle counter.
C5_WrapBumpsCycle ==
  [][Wraps => /\ _sharedState'[WRITE_CYCLE] = _sharedState[WRITE_CYCLE] + 1
              /\ _sharedState'[WRITE_CYCLE] = _cycle']_vars

\* C6: every call of _store, for a whole payload or a split head, has
\* cursor + PREFIX_SIZE + LEN + POSTFIX_SIZE + 1 <= |B|, and WRITE_INDEX is
\* always in [0, |B|].
C6_FrameBound ==
  /\ \A i \in 1..Len(frames) :
       frames[i].at + PREFIX_SIZE + byteLength(frames[i].data) + POSTFIX_SIZE + 1 <= BufLen
  /\ _sharedState[WRITE_INDEX] \in 0..BufLen

RECURSIVE FlatOfFirst(_, _)
FlatOfFirst(fs, n) == IF n = 0 THEN <<>> ELSE FlatOfFirst(fs, n - 1) \o fs[n].data

Flat(fs) == CHOOSE data \in {FlatOfFirst(v, Len(v)) : v \in {fs}} : TRUE

IsPrefix(s, t) == Len(s) <= Len(t) /\ SubSeq(t, 1, Len(s)) = s

\* nothing is running, queued or waiting any more
Settled == pc = "idle" /\ jobs = <<>> /\ waiters = 0 /\ _extraBuffer = <<>>

\* the last call hands in a payload too long for one frame of B, and every
\* call before it has returned false: its payload is in B, whole
LongPayloadLast ==
  /\ calls # <<>>
  /\ byteLength(calls[Len(calls)].data) > BufLen - EXTRA_SPACE - 1
  /\ \A c \in 1..(Len(calls) - 1) : calls[c].result = "false"

\* the frames of call c: from the first one with bytes of its payload on
FramesOf(c) ==
  LET idx == {i \in 1..Len(frames) : Carries(frames[i], c)}
  IN  IF idx = {} THEN <<>>
      ELSE SubSeq(frames, CHOOSE i \in idx : \A j \in idx : i <= j, Len(frames))

\* C7: a single payload p longer than |B| - EXTRA_SPACE - 1, written while
\* the Reader keeps consuming, comes out as one or more frames with
\* NOT_FINAL = 1 and a non-empty payload, then exactly one frame with
\* NOT_FINAL = 0; their payloads, in order, make up p.
C7_SplitLaw ==
  LongPayloadLast =>
    LET p == calls[Len(calls)].data
        mine == FramesOf(Len(calls))
        n == Len(mine)
    IN  /\ thrown \in {"none", TOO_LONG_READING}
        /\ \A i \in 1..n : mine[i].ok
        /\ \A i \in 1..n : mine[i].nf = 1 => mine[i].data # <<>>
        /\ \A i \in 1..n : mine[i].nf = 0 => i = n /\ Flat(mine) = p
        /\ IsPrefix(Flat(mine), p)
        /\ (Settled /\ calls[Len(calls)].result \in {"true", "false"})
             => n > 1 /\ mine[n].nf = 0

\* the Writer has had one call, writeSync of a payload of exactly
\* |B| - EXTRA_SPACE - 1 one-byte characters, on the empty ring
OneExactFit ==
  /\ Len(calls) = 1 /\ calls[1].sync
  /\ calls[1].data = MkPayload(1, Full)

\* C8: writeSync of a payload of exactly |B| - EXTRA_SPACE - 1 bytes at
\* cursor 0 of the empty ring stores one frame with NOT_FINAL = 0 and no
\* other, leaves WRITE_INDEX = |B| without a wrap, and returns false.
C8_ExactFit ==
  OneExactFit =>
    /\ \A i \in 1..Len(frames) : frames[i].nf = 0 /\ frames[i].data = calls[1].data
    /\ Len(frames) <= 1
    /\ _cycle = 0
    /\ calls[1].result # "pending"
         => /\ calls[1].result = "false"
            /\ Len(frames) = 1
            /\ _sharedState[WRITE_INDEX] = BufLen

\* this step, write or writeSync is called
Called == Len(calls') > Len(calls)

\* C9: a call of write or writeSync on a Writer that is not writable returns
\* false and drops the payload: nothing is stored in B, nothing is queued.
C9_NotWritableDrops ==
  [][(Called /\ ~writable) => /\ calls'[Len(calls')].result = "false"
                              /\ _extraBuffer' = _extraBuffer
                              /\ frames' = frames]_vars

\* the errors of the write engine the contract names
EngineErrors == {"overwritten", "Read further than expected", TOO_LONG_READING}

\* the errors of the lifecycle controller
LifecycleErrors == {READER_EXIT_BEFORE_SYNC, READER_FAILED_TIMEOUT, READER_EXIT_AT_SYNC,
                    READER_EXIT_WHILE_WATCH, FAILED_TO_FINISH_TIMEOUT,
                    FAILED_TO_FINISH_READER}

\* the events log holds e1 and, right after it, e2
Follows(e1, e2) ==
  \E i \in 1..(Len(events) - 1) : events[i] = e1 /\ events[i + 1] = e2

\* C10: every error of the Writer leaves it destroyed, reported by an
\* 'error' event and then a 'close' event; none leaves it writable.
C10_ErrorsDestroy ==
  (thrown \in EngineErrors \/ _errored \in LifecycleErrors)
    => (_destroyed /\ ~writable /\ Follows("error", "close"))

\* C11: each of the events ready, finish, error and close is emitted at most
\* once in the life of a Writer, whatever the calls and the Reader do.
C11_EventsOnce ==
  \A e \in {"ready", "finish", "error", "close"} : Count(events, e) <= 1

\* this step, end declares the Writer finished
DeclaresFinished ==
  \/ ~_finished /\ _finished'
  \/ ~_ended /\ _ended'
  \/ Emits("finish")
  \/ /\ _sharedState[WRITE_PROCESS] # FINISHED_SIGN
     /\ _sharedState'[WRITE_PROCESS] = FINISHED_SIGN
     /\ _ending

\* C12: end stores WRITE_PROCESS = FINISHED, sets finished and ended and
\* emits 'finish' only when the READ_PROCESS it has loaded is FINISHED.
C12_FinishOnlyOnAck ==
  [][DeclaresFinished => _sharedState[READ_PROCESS] = FINISHED_SIGN]_vars

\* the liveness watch is running: _watch is on the stack, or waits for a
\* change of READ_PROCESS, or its continuation is queued
WatchRunning ==
  /\ _watching
  /\ \/ pc \in {"watch", "watchWait"}
     \/ \E i \in 1..Len(procWaiters) : procWaiters[i] = "watch"
     \/ \E i \in 1..Len(jobs) : jobs[i][1] = "watch"

\* C13: on every path by which synchronize makes the Writer ready the
\* liveness watch is running, so that an exit of the Reader while the Writer
\* is ready and writable ends in destroy with READER_EXIT_WHILE_WATCH.
C13_ReadyIsWatched == (_ready /\ writable) => WatchRunning

\* the ring as the Writer owns it: B, the cursor and cycle, and the two
\* shared words the write engine stores
Ring == <<_sharedBuffer, _write, _cycle,
          _sharedState[WRITE_INDEX], _sharedState[WRITE_CYCLE]>>

\* the events log holds e1 and, somewhere after it, e2
Later(e1, e2) ==
  \E i, j \in 1..Len(events) : i < j /\ events[i] = e1 /\ events[j] = e2

\* C14: once destroy has completed no step changes a byte of B, the cursor,
\* the cycle, WRITE_INDEX or WRITE_CYCLE.
C14_RingFrozen == [][_destroyed => Ring' = Ring]_vars

\* a drain continuation that was pending at destroy has run _drain to its
\* end on a ring that holds frames
C14_Witness == _destroyed /\ frames # <<>> /\ Later("close", "drain")

\* the changes of WRITE_PROCESS the lifecycle state machine allows
WriterMoves == { <<EMPTY_SIGN, READY_SIGN>>, <<READY_SIGN, FINISHING_SIGN>>,
                 <<FINISHING_SIGN, FINISHED_SIGN>>,
                 <<EMPTY_SIGN, FAILED_SIGN>>, <<EMPTY_SIGN, FINISHED_SIGN>>,
                 <<READY_SIGN, FAILED_SIGN>>, <<READY_SIGN, FINISHED_SIGN>> }

\* C15: WRITE_PROCESS starts at EMPTY and changes only along the lifecycle
\* state machine; it never returns to an earlier sign and never leaves
\* FINISHED or FAILED.
C15_WriterSignMoves ==
  [][_sharedState'[WRITE_PROCESS] # _sharedState[WRITE_PROCESS]
       => <<_sharedState[WRITE_PROCESS], _sharedState'[WRITE_PROCESS]>> \in WriterMoves]_vars

\* the errors a handshake ends with
StartErrors == {READER_EXIT_BEFORE_SYNC, READER_FAILED_TIMEOUT, READER_EXIT_AT_SYNC}

\* this step, a run of synchronize ends: in the call itself, at its
\* waitAsync, or in its continuation
SyncReturns == syncCalls' > syncCalls /\ pc' = "idle"
SyncSettles == pc = "syncWait" /\ pc' = "idle" /\ procWaiters' = procWaiters
SyncResumes ==
  pc = "idle" /\ jobs # <<>> /\ Head(jobs)[1] = "sync" /\ jobs' = Tail(jobs)

SyncOutcome == _ready' \/ (_destroyed' /\ _errored' \in StartErrors)

\* C16: every run of synchronize on a writable Writer ends with the Writer
\* ready or destroyed with one of the three startup errors; this holds too
\* when READ_PROCESS leaves EMPTY between the load and the waitAsync.
C16_HandshakeOutcome ==
  [][(writable /\ (SyncReturns \/ SyncSettles \/ SyncResumes)) => SyncOutcome]_vars

\* the Writer is one lap ahead of the Reader
LapAhead == _cycle = _sharedState[READ_CYCLE] + 1

\* this step, _store writes a frame
Stores == Len(frames') > Len(frames)

\* The Writer is never more than one lap ahead of the Reader.
LapBound == _cycle - _sharedState[READ_CYCLE] \in {0, 1}

\* Where the bytes _store has written for frame f end: a call that threw at
\* line 251 has written the length and the payload, not the flag.
WrittenEnd(f) ==
  IF f.ok THEN f.end ELSE f.at + PREFIX_SIZE + byteLength(f.data)

\* C17: the Writer never overwrites unconsumed data: a frame stored while the
\* Writer is one lap ahead of the Reader ends at or before the READ_INDEX the
\* call has loaded, and the cycles of the two sides differ by 0 or 1.
C17_FrameBeforeReader ==
  [][/\ LapBound
     /\ (Stores /\ LapAhead) => WrittenEnd(frames'[Len(frames')]) <= read]_vars

\* C18: whenever the Writer has reached a final local state (closed, or
\* finished after end), WRITE_PROCESS holds a terminal sign, FINISHED or
\* FAILED; it is never left at READY or FINISHING.
C18_FinalSignStored ==
  (_closed \/ _finished) =>
    _sharedState[WRITE_PROCESS] \in {FINISHED_SIGN, FAILED_SIGN}

\* A step of the Writer other than the entry of a public call of synchronize.
NoSyncCall == syncCalls' = syncCalls

\* C20: after 'close' has been emitted the Writer emits no further event and
\* changes no observable attribute: a continuation of wait_async that resolves
\* after destroy does not emit 'drain' or 'ready', does not set ready, does not
\* clear need_drain and does not re-enable watching.
C20_QuietAfterClose ==
  [][(Count(events, "close") > 0 /\ NoSyncCall) =>
       /\ events' = events
       /\ _ready' = _ready
       /\ _needDrain' = _needDrain
       /\ _watching' = _watching]_vars

\* write has taken the payload of call c: it returned, true or false
Accepted(c) == Len(calls) >= c /\ calls[c].result \in {"true", "false"}

\* the bytes of the payload of call c in the published frames, in order
StoredOf(c) == SelectSeq(Flat(Published), LAMBDA b : b[1] = c)

StoredInFull(c) == Len(calls) >= c /\ StoredOf(c) = calls[c].data

\* C19: with a Reader that keeps consuming and neither end nor destroy, every
\* payload write has accepted is eventually stored in full in B, and every
\* period with need_drain = true eventually ends, with a drain event.
C19_Progress ==
  /\ \A c \in 1..MaxWrites : Accepted(c) ~> StoredInFull(c)
  /\ _needDrain ~> (~_needDrain /\ Count(events, "drain") > 0)

====
